---- MODULE Spec2Model ----
(***************************************************************************)
(* Model of Kinetic_Model.py (InteractiveKineticModel): the parameter      *)
(* store (tk variables), the kinetic engine (inhibition_model,             *)
(* pharmacokinetic_model, population_growth_model, calculate_kinetic_data, *)
(* update_results) and the presentation handlers that call it              *)
(* (update_plots, on_parameter_change, reset_parameters, export_data).     *)
(*                                                                         *)
(* Numbers.  Python floats and numpy.float64 are IEEE-754 binary floats    *)
(* rounded to nearest, ties to even.  A float is the record                *)
(*   [k |-> "fin" | "inf" | "nan", s |-> 1 | -1, m |-> mantissa, e |-> exp]*)
(* of value s * m * 2^e, with m = 0 or 2^(MantBits-1) <= m < 2^MantBits.   *)
(* Every arithmetic operator below computes the exact result and rounds it *)
(* once, as the hardware does.  The mantissa has MantBits bits instead of  *)
(* 53 so that products stay inside TLC's integers; the exponent is not     *)
(* bounded (the values of the model stay far from the overflow and the     *)
(* underflow thresholds of a double).                                      *)
(***************************************************************************)
EXTENDS Integers, Sequences, FiniteSets, TLC

\* ------------------------------------------------------------------ bounds
MantBits == 13

\* ------------------------------------------------------- float arithmetic
RECURSIVE BitLen(_)
BitLen(n) == IF n = 0 THEN 0 ELSE 1 + BitLen(n \div 2)

Pow2(n) == 2 ^ n

NaN == [k |-> "nan", s |-> 1, m |-> 0, e |-> 0]
Inf(sg) == [k |-> "inf", s |-> sg, m |-> 0, e |-> 0]
Zero(sg) == [k |-> "fin", s |-> sg, m |-> 0, e |-> 0]

IsNaN(a) == a.k = "nan"
IsInf(a) == a.k = "inf"
IsZero(a) == a.k = "fin" /\ a.m = 0

\* Rounding, last step: the carry out of the mantissa
RoundCarry(sg, E, q1) ==
    IF q1 = Pow2(MantBits)
    THEN [k |-> "fin", s |-> sg, m |-> Pow2(MantBits - 1), e |-> E + 1]
    ELSE [k |-> "fin", s |-> sg, m |-> q1, e |-> E]

\* Rounding of q + r / (2 * half) to nearest, ties to even
RoundParts(sg, E, sticky, q, r, half) ==
    RoundCarry(sg, E, IF r > half \/ (r = half /\ (sticky \/ q % 2 = 1))
                      THEN q + 1 ELSE q)

\* Rounding of M, which has nb bits
RoundBits(sg, M, E, sticky, nb) ==
    IF nb <= MantBits
    THEN [k |-> "fin", s |-> sg, m |-> M * Pow2(MantBits - nb),
          e |-> E - (MantBits - nb)]
    ELSE RoundParts(sg, E + (nb - MantBits), sticky,
                    M \div Pow2(nb - MantBits), M % Pow2(nb - MantBits),
                    Pow2(nb - MantBits - 1))

\* The float nearest to sg * (M + f) * 2^E, where M > 0 is an integer and
\* 0 <= f < 1 with f > 0 exactly when sticky: round to nearest, ties to even.
Round(sg, M, E, sticky) == RoundBits(sg, M, E, sticky, BitLen(M))

\* float(n) for a Python int n
FromInt(n) ==
    IF n = 0 THEN Zero(1)
    ELSE Round(IF n > 0 THEN 1 ELSE -1, IF n > 0 THEN n ELSE -n, 0, FALSE)

FNeg(a) == IF IsNaN(a) THEN a ELSE [a EXCEPT !.s = -a.s]

\* |a| < |b| for finite non-zero a, b
MagLess(a, b) == a.e < b.e \/ (a.e = b.e /\ a.m < b.m)

\* hi + lo rounded, from the exact mantissa M of the sum in units of
\* 2^(hi.e - 3); st: bits of lo were shifted out
FAddRound(hi, M, st) ==
    IF M = 0 /\ ~st THEN Zero(1) ELSE Round(hi.s, M, hi.e - 3, st)

\* lo8: the mantissa of lo in units of 2^(hi.e - 3)
FAddAligned(hi, lo, lo8, st) ==
    FAddRound(hi,
              IF hi.s = lo.s THEN hi.m * 8 + lo8
              ELSE IF st THEN hi.m * 8 - lo8 - 1 ELSE hi.m * 8 - lo8,
              st)

\* hi + lo for finite non-zero hi, lo with |hi| >= |lo| and d = hi.e - lo.e
FAddOrdered(hi, lo, d) ==
    FAddAligned(hi, lo,
                IF d > MantBits + 2 THEN 0 ELSE (lo.m * 8) \div Pow2(d),
                IF d > MantBits + 2 THEN TRUE ELSE (lo.m * 8) % Pow2(d) # 0)

\* a + b
FAdd(a, b) ==
    IF IsNaN(a) \/ IsNaN(b) THEN NaN
    ELSE IF IsInf(a) THEN (IF IsInf(b) /\ b.s # a.s THEN NaN ELSE a)
    ELSE IF IsInf(b) THEN b
    ELSE IF a.m = 0 /\ b.m = 0 THEN Zero(IF a.s = b.s THEN a.s ELSE 1)
    ELSE IF a.m = 0 THEN b
    ELSE IF b.m = 0 THEN a
    ELSE IF MagLess(a, b) THEN FAddOrdered(b, a, b.e - a.e)
    ELSE FAddOrdered(a, b, a.e - b.e)

FSub(a, b) == FAdd(a, FNeg(b))

\* a * b
FMul(a, b) ==
    IF IsNaN(a) \/ IsNaN(b) THEN NaN
    ELSE IF IsInf(a) \/ IsInf(b)
         THEN (IF IsZero(a) \/ IsZero(b) THEN NaN ELSE Inf(a.s * b.s))
    ELSE IF a.m = 0 \/ b.m = 0 THEN Zero(a.s * b.s)
    ELSE Round(a.s * b.s, a.m * b.m, a.e + b.e, FALSE)

\* numpy.float64 true division: a zero divisor gives inf or nan (with a
\* RuntimeWarning), never an exception
FDiv(a, b) ==
    IF IsNaN(a) \/ IsNaN(b) THEN NaN
    ELSE IF IsInf(a) THEN (IF IsInf(b) THEN NaN ELSE Inf(a.s * b.s))
    ELSE IF IsInf(b) THEN Zero(a.s * b.s)
    ELSE IF b.m = 0 THEN (IF a.m = 0 THEN NaN ELSE Inf(a.s * b.s))
    ELSE IF a.m = 0 THEN Zero(a.s * b.s)
    ELSE LET q0 == a.m \div b.m
             r0 == a.m % b.m
             q1 == (r0 * Pow2(MantBits)) \div b.m
             r1 == (r0 * Pow2(MantBits)) % b.m
             q2 == (r1 * 4) \div b.m
             r2 == (r1 * 4) % b.m
         IN  Round(a.s * b.s, (q0 * Pow2(MantBits) + q1) * 4 + q2,
                   a.e - b.e - MantBits - 2, r2 # 0)

\* the sign of a difference d = a - b (nan when a and b are the same infinity)
IsNegative(d) == ~IsNaN(d) /\ d.s = -1 /\ ~IsZero(d)
IsNotPositive(d) == IsNaN(d) \/ IsZero(d) \/ d.s = -1

\* a < b and a <= b; every comparison with nan is false
FLt(a, b) == ~IsNaN(a) /\ ~IsNaN(b) /\ IsNegative(FSub(a, b))

FLe(a, b) == ~IsNaN(a) /\ ~IsNaN(b) /\ IsNotPositive(FSub(a, b))

FEq(a, b) == FLe(a, b) /\ FLe(b, a)

\* math.ceil of a finite float
CeilInt(a) ==
    IF a.m = 0 THEN 0
    ELSE IF a.e >= 0 THEN a.s * a.m * Pow2(a.e)
    ELSE IF -a.e >= MantBits THEN (IF a.s = 1 THEN 1 ELSE 0)
    ELSE LET q == a.m \div Pow2(-a.e)
             r == a.m % Pow2(-a.e)
         IN  IF a.s = 1 THEN q + (IF r # 0 THEN 1 ELSE 0) ELSE -q

One == FromInt(1)

\* the float of the decimal literal num/den
Dec(num, den) == FDiv(FromInt(num), FromInt(den))

\* a * 2^(-n), exact
Scale(a, n) == IF a.k = "fin" /\ a.m # 0 THEN [a EXCEPT !.e = a.e - n] ELSE a

RECURSIVE ExpSeries(_, _)
\* 1 + r/j * (1 + r/(j+1) * ( ... )): the Taylor series of exp(r), |r| <= 1/2
ExpSeries(r, j) ==
    IF j > 6 THEN One
    ELSE FAdd(One, FMul(FDiv(r, FromInt(j)), ExpSeries(r, j + 1)))

RECURSIVE SquareN(_, _)
SquareN(a, n) == IF n = 0 THEN a ELSE SquareN(FMul(a, a), n - 1)

\* numpy.exp: exp(+-0) = 1 exactly, exp(-inf) = 0, exp(inf) = inf,
\* exp(nan) = nan, overflow to inf above 709.78 and underflow to 0 below
\* -745.13; elsewhere exp(x) = exp(x / 2^n)^(2^n) to a few units in the
\* last place.
FExp(x) ==
    IF IsNaN(x) THEN NaN
    ELSE IF IsInf(x) THEN (IF x.s = 1 THEN Inf(1) ELSE Zero(1))
    ELSE IF x.m = 0 THEN One
    ELSE IF FLt(FromInt(709), x) THEN Inf(1)
    ELSE IF FLt(x, FromInt(-746)) THEN Zero(1)
    ELSE LET n == IF x.e + MantBits + 1 > 0 THEN x.e + MantBits + 1 ELSE 0
         IN  SquareN(ExpSeries(Scale(x, n), 1), n)

RECURSIVE AtanhSeries(_, _)
\* 1/j + u2 * (1/(j+2) + u2 * ( ... )), so that atanh(u) = u * AtanhSeries(u*u, 1)
AtanhSeries(u2, j) ==
    IF j > 9 THEN Zero(1)
    ELSE FAdd(FDiv(One, FromInt(j)), FMul(u2, AtanhSeries(u2, j + 2)))

\* (z - 1) / (z + 1)
AtanhArg(z) == FDiv(FSub(z, One), FAdd(z, One))

\* n * log10(2) + 2 * atanh(u) * log10(e)
Log10Sum(n, u) ==
    FAdd(FMul(FromInt(n), Dec(30103, 100000)),
         FMul(FMul(FromInt(2), FMul(u, AtanhSeries(FMul(u, u), 1))),
              Dec(43429, 100000)))

\* numpy.log10: nan for a negative argument, -inf for 0 (each with a
\* RuntimeWarning), inf for inf; for x = z * 2^n with 1 <= z < 2,
\* log10(x) = n * log10(2) + ln(z) * log10(e), ln(z) = 2 * atanh((z-1)/(z+1)).
FLog10(x) ==
    IF IsNaN(x) THEN NaN
    ELSE IF IsZero(x) THEN Inf(-1)
    ELSE IF x.s = -1 THEN NaN
    ELSE IF IsInf(x) THEN Inf(1)
    ELSE Log10Sum(x.e + MantBits - 1, AtanhArg([x EXCEPT !.e = -(MantBits - 1)]))

\* ------------------------------------------------------------ the engine
\* Competitive inhibition.  concentration is a numpy.float64 at every call
\* site, so both divisions follow numpy (FDiv) and never raise.
inhibition_model(concentration, mu_max, Ki) ==
    FDiv(mu_max, FAdd(One, FDiv(concentration, Ki)))

pharmacokinetic_model(time, initial_conc, ka, ke) ==
    LET k_total == FAdd(ka, ke)
    IN  FMul(initial_conc, FExp(FMul(FNeg(k_total), time)))

\* default argument N0=1e6
N0_default == FromInt(1000000)

population_growth_model(time, mu, K_max, N0) ==
    IF FLe(mu, Zero(1))
    THEN FMul(N0, FExp(FMul(FNeg(Dec(1, 10)), time)))
    ELSE FDiv(FMul(K_max, N0),
              FAdd(N0, FMul(FSub(K_max, N0), FExp(FMul(FNeg(mu), time)))))

\* len elements, element i = start + i * delta
arange_fill(start, len, delta) ==
    IF len <= 0 THEN << >>
    ELSE [i \in 1..len |-> FAdd(start, FMul(FromInt(i - 1), delta))]

\* numpy.arange(start, stop, step) for floats: ceil((stop - start) / step)
\* elements, element i = start + i * delta with delta = (start + step) - start
np_arange(start, stop, step) ==
    arange_fill(start, CeilInt(FDiv(FSub(stop, start), step)),
                FSub(FAdd(start, step), start))

\* the selection read the wrong way round
ki_value_swapped(P, sel) == IF sel = "compound1" THEN P.Ki_comp2 ELSE P.Ki_comp1

\* Ki according to the selected compound
ki_value(P, sel) == IF sel = "compound1" THEN P.Ki_comp1 ELSE P.Ki_comp2

\* results.append({...}): one row of the DataFrame
SampleRow(time, current_conc, current_mu, biomass) ==
    [time |-> time, concentration |-> current_conc, mu |-> current_mu,
     biomass |-> FLog10(biomass), raw_biomass |-> biomass]

SampleMu(P, time, current_conc, current_mu) ==
    SampleRow(time, current_conc, current_mu,
              population_growth_model(time, current_mu, P.K_max, N0_default))

SampleConc(P, sel, time, current_conc) ==
    SampleMu(P, time, current_conc,
             inhibition_model(current_conc, P.mu_max, ki_value(P, sel)))

\* the body of the loop over time_array
Sample(P, sel, time) ==
    SampleConc(P, sel, time,
               pharmacokinetic_model(time, P.initial_conc, P.ka, P.ke))

\* time_array = np.arange(0, 8 + dt, dt)
time_array(dt) == np_arange(Zero(1), FAdd(FromInt(8), dt), dt)

\* pd.DataFrame(results)
DataFrame(P, sel, times) ==
    [exc  |-> "none",
     rows |-> [i \in 1..Len(times) |-> Sample(P, sel, times[i])]]

\* the series computed without the division 8 / time_points failing: the
\* step is taken to be 8 when time_points = 0
calculate_kinetic_data_unguarded(P, sel) ==
    DataFrame(P, sel, time_array(IF P.time_points = 0 THEN FromInt(8)
                                 ELSE FDiv(FromInt(8), FromInt(P.time_points))))

\* The DataFrame of samples, or the exception raised by 8 / time_points
\* (int / int: ZeroDivisionError).
calculate_kinetic_data(P, sel) ==
    IF P.time_points = 0
    THEN [exc |-> "ZeroDivisionError", rows |-> << >>]
    ELSE DataFrame(P, sel, time_array(FDiv(FromInt(8), FromInt(P.time_points))))

\* ------------------------------------------------- the parameter store
Compounds == {"compound1", "compound2"}

\* self.parameters as created by __init__
initial_parameters ==
    [mu_max |-> Dec(95, 100), Ki_comp1 |-> Dec(12, 100), Ki_comp2 |-> FromInt(10),
     K_max |-> FromInt(1000000000), ka |-> Dec(1, 10), ke |-> Dec(5, 100),
     initial_conc |-> Dec(2, 10), time_points |-> 100]

\* a defaults dictionary whose Ki_comp1 is not the startup value
defaults_hidden ==
    [mu_max |-> Dec(95, 100), Ki_comp1 |-> FromInt(1), Ki_comp2 |-> FromInt(10),
     K_max |-> FromInt(1000000000), ka |-> Dec(1, 10), ke |-> Dec(5, 100),
     initial_conc |-> Dec(2, 10), time_points |-> 100]

\* the defaults dictionary of reset_parameters
defaults ==
    [mu_max |-> Dec(95, 100), Ki_comp1 |-> Dec(12, 100), Ki_comp2 |-> FromInt(10),
     K_max |-> FromInt(1000000000), ka |-> Dec(1, 10), ke |-> Dec(5, 100),
     initial_conc |-> Dec(2, 10), time_points |-> 100]

\* The sliders of setup_control_panel (K_max has none) and the positions
\* the model moves each of them to; every position lies inside the
\* slider's range [from_, to]:
\*   mu_max 0.1..2.0, Ki_comp1 0.01..1.0, Ki_comp2 1.0..50.0, ka 0.01..0.5,
\*   ke 0.01..0.2, initial_conc 0.05..0.5, time_points 50..200.
Sliders == {"mu_max", "Ki_comp1", "Ki_comp2", "ka", "ke", "initial_conc",
            "time_points"}

SliderPositions ==
    [mu_max |-> {Dec(95, 100)}, Ki_comp1 |-> {Dec(12, 100), One},
     Ki_comp2 |-> {FromInt(10)}, ka |-> {Dec(1, 10)}, ke |-> {Dec(5, 100)},
     initial_conc |-> {Dec(2, 10)}, time_points |-> {100}]

\* parameter sets the sliders can produce
GuiParameters ==
    [mu_max : SliderPositions.mu_max, Ki_comp1 : SliderPositions.Ki_comp1,
     Ki_comp2 : SliderPositions.Ki_comp2, K_max : {initial_parameters.K_max},
     ka : SliderPositions.ka, ke : SliderPositions.ke,
     initial_conc : SliderPositions.initial_conc,
     time_points : SliderPositions.time_points]

\* values of an inhibition constant inside its slider range, used to vary
\* the constant of the compound that is not selected
OtherKi == [Ki_comp1 |-> {Dec(12, 100), One}, Ki_comp2 |-> {FromInt(10), One}]

GuiVariants ==
    {[P EXCEPT !.Ki_comp1 = k1, !.Ki_comp2 = k2] :
        P \in GuiParameters, k1 \in OtherKi.Ki_comp1, k2 \in OtherKi.Ki_comp2}

\* Parameter sets an arbitrary parameter store can hand to the engine,
\* the documented ranges not enforced: zero and negative inhibition
\* constants, concentrations and carrying capacities, and every
\* time_points from -1 to MaxTimePoints.
MaxTimePoints == 6

EngineParameters ==
    [mu_max : {Dec(95, 100)}, Ki_comp1 : {Dec(12, 100), Zero(1), Dec(-12, 100)},
     Ki_comp2 : {FromInt(10)},
     K_max : {FromInt(1000000000), Dec(1, 10), Zero(1)},
     ka : {Dec(1, 10)}, ke : {Dec(5, 100)},
     initial_conc : {Dec(2, 10), Dec(-2, 10)},
     time_points : -1..MaxTimePoints]

\* ------------------------------------------------------ the presentation
\* f"{x:.<digits>f}" of a finite float: the decimal nearest to the exact
\* value (ties to even), as sign and count of units of 10^-digits
Format(x, digits) ==
    IF x.k # "fin" THEN [k |-> x.k, s |-> x.s, n |-> 0]
    ELSE IF x.m = 0 THEN [k |-> "fin", s |-> x.s, n |-> 0]
    ELSE IF x.e >= 0 THEN [k |-> "fin", s |-> x.s, n |-> x.m * Pow2(x.e) * 10 ^ digits]
    ELSE IF -x.e > 30 THEN [k |-> "fin", s |-> x.s, n |-> 0]
    ELSE LET num == x.m * 10 ^ digits
             den == Pow2(-x.e)
             q   == num \div den
             r   == num % den
             up  == 2 * r > den \/ (2 * r = den /\ q % 2 = 1)
         IN  [k |-> "fin", s |-> x.s, n |-> IF up THEN q + 1 ELSE q]

\* conc_range = np.linspace(0, 0.25, 100), drawn here with CurvePoints points
CurvePoints == 3

np_linspace(start, stop, num) ==
    LET step == FDiv(FSub(stop, start), FromInt(num - 1))
    IN  [i \in 1..num |-> IF i = num THEN stop
                          ELSE FAdd(FMul(FromInt(i - 1), step), start)]

conc_range == np_linspace(Zero(1), Dec(25, 100), CurvePoints)

\* predicted_mu / mu_comp1 / mu_comp2: the model curve of one compound
predicted_mu(mu_max, ki) ==
    [i \in 1..CurvePoints |-> inhibition_model(conc_range[i], mu_max, ki)]

\* what update_inhibition_plot draws: per compound the model curve and the
\* text box with Ki and ED50 = Ki
update_inhibition_plot(P) ==
    [curves |-> <<predicted_mu(P.mu_max, P.Ki_comp1),
                  predicted_mu(P.mu_max, P.Ki_comp2)>>,
     ki     |-> <<Format(P.Ki_comp1, 3), Format(P.Ki_comp2, 3)>>,
     ed50   |-> <<Format(P.Ki_comp1, 3), Format(P.Ki_comp2, 3)>>]

\* what update_comparison_plot draws: both curves and the 50 % line
update_comparison_plot(P) ==
    [mu_comp1 |-> predicted_mu(P.mu_max, P.Ki_comp1),
     mu_comp2 |-> predicted_mu(P.mu_max, P.Ki_comp2),
     axhline  |-> FMul(P.mu_max, Dec(5, 10))]

\* the ratio taken whatever ki1 is
potencia_rel_unguarded(ki1, ki2) == FDiv(ki2, ki1)

\* potencia_rel = ki2 / ki1 if ki1 > 0 else 0
potencia_rel(ki1, ki2) == IF FLt(Zero(1), ki1) THEN FDiv(ki2, ki1) ELSE FromInt(0)

\* the four StringVars of the results panel
update_results(P) ==
    [ed50_comp1   |-> Format(P.Ki_comp1, 3),
     ed50_comp2   |-> Format(P.Ki_comp2, 3),
     potencia_rel |-> Format(potencia_rel(P.Ki_comp1, P.Ki_comp2), 1),
     ki_ratio     |-> Format(potencia_rel(P.Ki_comp1, P.Ki_comp2), 1)]

\* the parameter sets of the interface
GuiParameterSets == GuiVariants \cup {initial_parameters, defaults}

\* calculate_kinetic_data evaluated once for a parameter set and a selector
KineticForced(df) == [exc |-> df.exc, rows |-> df.rows \o << >>]

KineticEntry(c) == KineticForced(calculate_kinetic_data(c[1], c[2]))

\* the DataFrames of every parameter set of the model; the handlers below
\* look them up here.  (@@ and \o make a table and its rows explicit values
\* instead of unevaluated functions.)
KineticTable == [c \in GuiParameterSets \X Compounds |-> KineticEntry(c)] @@ << >>
KineticTableEngine == [c \in EngineParameters \X Compounds |-> KineticEntry(c)] @@ << >>

kinetic_data(P, sel) ==
    IF P \in GuiParameterSets THEN KineticTable[<<P, sel>>]
    ELSE KineticTableEngine[<<P, sel>>]

\* an output made of explicit sequences
RenderForced(inh, cmp, res) ==
    [inhibition |-> [curves |-> <<inh.curves[1] \o << >>, inh.curves[2] \o << >> >>,
                     ki     |-> inh.ki,
                     ed50   |-> inh.ed50],
     comparison |-> [mu_comp1 |-> cmp.mu_comp1 \o << >>,
                     mu_comp2 |-> cmp.mu_comp2 \o << >>,
                     axhline  |-> cmp.axhline],
     results    |-> res]

\* the three other outputs of update_plots for a parameter set
RenderEntry(P) ==
    RenderForced(update_inhibition_plot(P), update_comparison_plot(P),
                 update_results(P))

RenderTable == [P \in GuiParameterSets |-> RenderEntry(P)] @@ << >>
RenderTableEngine == [P \in EngineParameters |-> RenderEntry(P)] @@ << >>

Render(P) == IF P \in GuiParameterSets THEN RenderTable[P] ELSE RenderTableEngine[P]

\* ------------------------------------------------------------- the state
VARIABLES
    parameters,         \* self.parameters: the eight tk variables
    selected_compound,  \* self.selected_compound
    update_timer,       \* self._update_timer: an after id, 0 before it is set
    after_pending,      \* after ids scheduled in the Tk event loop
    fig_inhibition,     \* what fig_inhibition shows
    fig_kinetic,        \* what fig_kinetic shows
    fig_comparison,     \* what fig_comparison shows
    results_vars,       \* self.results_vars
    messagebox,         \* the dialog raised by the most recent handler
    csv_files,          \* kinetic_data_<compound>.csv as written by export_data
    last_update,        \* history: -1 if the most recent handler did not run
                        \* update_plots, else the step of update_plots that
                        \* raised in it (0: none)
    burst_ran,          \* history: an operation writing parameters has run
                        \* update_plots itself while its timer is pending
    burst_coalesced     \* history: the last timer that fired made the only
                        \* update_plots run of its burst of parameter writes

vars == <<parameters, selected_compound, update_timer, after_pending,
          fig_inhibition, fig_kinetic, fig_comparison, results_vars,
          messagebox, csv_files, last_update, burst_ran, burst_coalesced>>

Blank == [drawn |-> FALSE]
Drawn(c) == [drawn |-> TRUE, content |-> c]

NoDialog == [kind |-> "none"]
\* an exception swallowed without a dialog
ShowError_swallowed(handler, exc) == NoDialog
ShowError(handler, exc) == [kind |-> "showerror", handler |-> handler, exc |-> exc]
ShowInfo(handler) == [kind |-> "showinfo", handler |-> handler]

\* update_plots: the four steps inside try/except, given the DataFrame df
\* that calculate_kinetic_data returns.  fault is the step (1..4) in which
\* the plotting library raises on entry, 0 if it does not.  Step 2 also
\* raises by itself: ZeroDivisionError inside calculate_kinetic_data (before
\* fig_kinetic.clear()), KeyError on kinetic_data['time'] when the DataFrame
\* is empty (after fig_kinetic.clear()).
update_plots_exc(df, fault) ==
    IF fault = 1 THEN [step |-> 1, exc |-> "Exception"]
    ELSE IF fault = 2 THEN [step |-> 2, exc |-> "Exception"]
    ELSE IF df.exc # "none" THEN [step |-> 2, exc |-> df.exc]
    ELSE IF Len(df.rows) = 0 THEN [step |-> 2, exc |-> "KeyError"]
    ELSE IF fault = 3 THEN [step |-> 3, exc |-> "Exception"]
    ELSE IF fault = 4 THEN [step |-> 4, exc |-> "Exception"]
    ELSE [step |-> 0, exc |-> "none"]

\* the outputs after update_plots: out holds what the three other steps
\* draw, r the step that raised
update_plots_steps(out, df, r) ==
    /\ fig_inhibition' =
         IF r.step = 1 THEN fig_inhibition ELSE Drawn(out.inhibition)
    /\ fig_kinetic' =
         IF r.step = 1 \/ (r.step = 2 /\ r.exc # "KeyError") THEN fig_kinetic
         ELSE IF r.step = 2 THEN Blank
         ELSE Drawn(df.rows)
    /\ fig_comparison' =
         IF r.step \in {1, 2, 3} THEN fig_comparison ELSE Drawn(out.comparison)
    /\ results_vars' =
         IF r.step # 0 THEN results_vars ELSE Drawn(out.results)
    /\ messagebox' =
         IF r.step # 0 THEN ShowError("update_plots", r.exc) ELSE NoDialog
    /\ last_update' = r.step

update_plots_df(out, df, fault) ==
    update_plots_steps(out, df, update_plots_exc(df, fault))

update_plots(P, sel, fault) ==
    update_plots_df(Render(P), kinetic_data(P, sel), fault)

\* the plotting library raises in no step (0) or in one of the four
Faults == 0..4

\* on_parameter_change without the after_cancel
on_parameter_change_nocancel(t) ==
    [update_timer |-> t.update_timer + 1,
     after_pending |-> t.after_pending \cup {t.update_timer + 1}]

\* on_parameter_change: cancel the timer named by _update_timer (if the
\* attribute exists) and schedule update_plots 100 ms from now
on_parameter_change(t) ==
    LET kept == IF t.update_timer # 0 THEN t.after_pending \ {t.update_timer}
                ELSE t.after_pending
        used == kept \cup {t.update_timer}
        id   == CHOOSE i \in 1..(Cardinality(used) + 1) :
                    i \notin used /\ \A j \in 1..(i - 1) : j \in used
    IN  [update_timer |-> id, after_pending |-> kept \cup {id}]

Timers == [update_timer |-> update_timer, after_pending |-> after_pending]

RECURSIVE on_parameter_changes(_, _)
\* n successive calls of on_parameter_change
on_parameter_changes(t, n) ==
    IF n = 0 THEN t ELSE on_parameter_changes(on_parameter_change(t), n - 1)

\* a parameter write opens a burst when no timer is pending
BurstRanNow == after_pending # {} /\ burst_ran

\* The user drags a slider: ttk.Scale writes the variable (the write trace
\* of bind_events calls on_parameter_change) and then calls its command
\* (on_parameter_change again).
ScaleMoved ==
    \E p \in Sliders : \E v \in SliderPositions[p] :
        LET t == on_parameter_changes(Timers, 2)
        IN  /\ parameters' = [parameters EXCEPT ![p] = v]
            /\ update_timer' = t.update_timer
            /\ after_pending' = t.after_pending
            /\ burst_ran' = BurstRanNow
            /\ last_update' = -1
            /\ messagebox' = NoDialog
            /\ UNCHANGED <<selected_compound, fig_inhibition, fig_kinetic,
                           fig_comparison, results_vars, csv_files,
                           burst_coalesced>>

\* A radio button is clicked: on_compound_change
on_compound_change ==
    \E c \in Compounds : \E fault \in Faults :
        /\ selected_compound' = c
        /\ update_plots(parameters, c, fault)
        /\ UNCHANGED <<parameters, update_timer, after_pending, csv_files,
                       burst_ran, burst_coalesced>>

\* The button "Actualizar Graficos": update_plots
UpdateButton ==
    \E fault \in Faults :
        /\ update_plots(parameters, selected_compound, fault)
        /\ UNCHANGED <<parameters, selected_compound, update_timer,
                       after_pending, csv_files, burst_ran, burst_coalesced>>

\* The 100 ms timer id expires: the event loop calls update_plots
TimerFired(id) ==
    /\ id \in after_pending
    /\ after_pending' = after_pending \ {id}
    /\ \E fault \in Faults :
           update_plots(parameters, selected_compound, fault)
    /\ burst_coalesced' = ~burst_ran
    /\ burst_ran' = FALSE
    /\ UNCHANGED <<parameters, selected_compound, update_timer, csv_files>>

TimerFire == \E id \in after_pending : TimerFired(id)

\* reset_parameters: eight writes (each traced: on_parameter_change), the
\* selector, then update_plots
reset_parameters ==
    \E fault \in Faults :
        LET t == on_parameter_changes(Timers, 8)
        IN  /\ parameters' = defaults
            /\ selected_compound' = "compound1"
            /\ update_timer' = t.update_timer
            /\ after_pending' = t.after_pending
            /\ update_plots(defaults, "compound1", fault)
            /\ burst_ran' = TRUE
            /\ UNCHANGED <<csv_files, burst_coalesced>>

\* to_csv and showinfo, or showerror if computing the DataFrame raised
export_data_df(df) ==
    /\ csv_files' = IF df.exc # "none" THEN csv_files
                    ELSE [csv_files EXCEPT ![selected_compound] = Drawn(df.rows)]
    /\ messagebox' = IF df.exc # "none" THEN ShowError("export_data", df.exc)
                     ELSE ShowInfo("export_data")

\* export_data: the DataFrame of the selected compound written to
\* kinetic_data_<compound>.csv, or the error dialog if computing it raised
export_data ==
    /\ export_data_df(kinetic_data(parameters, selected_compound))
    /\ last_update' = -1
    /\ UNCHANGED <<parameters, selected_compound, update_timer, after_pending,
                   fig_inhibition, fig_kinetic, fig_comparison, results_vars,
                   burst_ran, burst_coalesced>>

\* the outputs after the update_plots() call of __init__
ConstructedOutputs(out, df, r) ==
    /\ fig_inhibition = Drawn(out.inhibition)
    /\ fig_kinetic = IF r.step = 0 THEN Drawn(df.rows) ELSE Blank
    /\ fig_comparison = IF r.step = 0 THEN Drawn(out.comparison) ELSE Blank
    /\ results_vars = IF r.step = 0 THEN Drawn(out.results) ELSE Blank
    /\ messagebox = IF r.step # 0 THEN ShowError("update_plots", r.exc) ELSE NoDialog
    /\ last_update = r.step

ConstructedDf(out, df) == ConstructedOutputs(out, df, update_plots_exc(df, 0))

\* the state __init__ leaves: setup_ui, bind_events, update_plots()
Constructed(P, sel) ==
    /\ parameters = P
    /\ selected_compound = sel
    /\ update_timer = 0
    /\ after_pending = {}
    /\ ConstructedDf(Render(P), kinetic_data(P, sel))
    /\ csv_files = [c \in Compounds |-> Blank]
    /\ burst_ran = FALSE
    /\ burst_coalesced = TRUE

\* the application as launched by main()
Init == Constructed(initial_parameters, "compound1")

Next ==
    \/ ScaleMoved
    \/ on_compound_change
    \/ UpdateButton
    \/ TimerFire
    \/ reset_parameters
    \/ export_data

Spec == Init /\ [][Next]_vars

\* The engine behind an arbitrary parameter store: the application
\* constructed over any parameter set of EngineParameters, and the handlers
\* that read the store and call the engine.
InitEngine ==
    \E P \in EngineParameters : \E sel \in Compounds : Constructed(P, sel)

NextEngine ==
    \/ on_compound_change
    \/ UpdateButton
    \/ export_data

SpecEngine == InitEngine /\ [][NextEngine]_vars

\* The ids root.after hands out in the model: the smallest id not in use,
\* which is the first or the second since on_parameter_change cancels the
\* timer it replaces.
TimerIds == {1, 2}

\* The Tk event loop (root.mainloop) runs a timer that stays scheduled:
\* every id that remains pending eventually fires.  An id is used again
\* after it was cancelled, so the condition speaks about one timer only in
\* behaviours whose writes eventually stop.
SpecLive == Spec /\ \A id \in TimerIds : WF_vars(TimerFired(id))

\* ------------------------------------------------------------ properties
Eight == FromInt(8)

\* the DataFrame the engine returns for the current store and selector
CurrentData == kinetic_data(parameters, selected_compound)

\* every output shows what the current parameters and selector give
AllFresh ==
    /\ fig_inhibition = Drawn(Render(parameters).inhibition)
    /\ CurrentData.exc = "none" /\ Len(CurrentData.rows) > 0
    /\ fig_kinetic = Drawn(CurrentData.rows)
    /\ fig_comparison = Drawn(Render(parameters).comparison)
    /\ results_vars = Drawn(Render(parameters).results)

\* every parameter outside S holds its default, time_points apart, which
\* is at least 1 unless it is in S
DefaultsExcept(S) ==
    /\ \A p \in (DOMAIN defaults) \ (S \cup {"time_points"}) : parameters[p] = defaults[p]
    /\ "time_points" \notin S => parameters.time_points >= 1

\* C1: with Ki = 0 the inhibition response ends in an explicit domain
\* error: when update_plots has run over a store whose selected inhibition
\* constant is 0 (inhibition_model is called with it for every sample), the
\* error dialog is shown instead of growth rates computed from it.
C1_DomainErrorOnZeroKi ==
    (/\ DefaultsExcept({"Ki_comp1"})
     /\ IsZero(ki_value(parameters, selected_compound))
     /\ last_update # -1)
        => messagebox.kind = "showerror"

\* C2: with time_points = 0 no sample is ever produced (the kinetic figure
\* is never drawn, no file is written) and every handler that starts the
\* computation, update_plots and export_data, ends with the error dialog.
C2_ZeroTimePointsIsAnError ==
    parameters.time_points = 0 =>
        /\ fig_kinetic = Blank
        /\ \A c \in Compounds : csv_files[c] = Blank
        /\ messagebox.kind = "showerror"

C2_Witness ==
    /\ parameters.time_points = 0
    /\ messagebox = ShowError("export_data", "ZeroDivisionError")

\* the results panel was written by the most recent handler
ResultsJustWritten == last_update = 0 /\ results_vars.drawn

\* C3 as stated: the potency shown is Ki_comp2 / Ki_comp1 whenever Ki_comp1
\* is not zero, and for Ki_comp1 = 0 it is a value that no parameter set
\* with a non-zero Ki_comp1 produces.
C3_PotencyForNonZeroKi ==
    ResultsJustWritten =>
        IF ~IsZero(parameters.Ki_comp1)
        THEN results_vars.content.potencia_rel =
                 Format(FDiv(parameters.Ki_comp2, parameters.Ki_comp1), 1)
        ELSE \A P \in EngineParameters :
                 ~IsZero(P.Ki_comp1) =>
                     Render(P).results.potencia_rel # results_vars.content.potencia_rel

\* inhibition constants inside the slider ranges 0.01..1.0 and 1.0..50.0
ValidKi1 == {Dec(1, 100), Dec(12, 100), One}
ValidKi2 == {One, FromInt(10), FromInt(50)}

\* the value shown for Ki_comp1 <= 0 differs from every potency of valid
\* inhibition constants, all of which are at least 1
SentinelDistinct ==
    \A k1 \in ValidKi1 : \A k2 \in ValidKi2 :
        /\ Format(potencia_rel(k1, k2), 1) # Format(Zero(1), 1)
        /\ Format(potencia_rel(k1, k2), 1).n >= 10

\* C3 as amended: the potency shown is Ki_comp2 / Ki_comp1 whenever
\* Ki_comp1 > 0; for Ki_comp1 <= 0 nothing is divided and the value shown is
\* 0, which differs from the potency of every pair of inhibition constants
\* inside the slider ranges.
C3_PotencyForPositiveKi ==
    ResultsJustWritten =>
        IF FLt(Zero(1), parameters.Ki_comp1)
        THEN results_vars.content.potencia_rel =
                 Format(FDiv(parameters.Ki_comp2, parameters.Ki_comp1), 1)
        ELSE /\ results_vars.content.potencia_rel = Format(Zero(1), 1)
             /\ SentinelDistinct

C3_Witness ==
    /\ ResultsJustWritten
    /\ IsZero(parameters.Ki_comp1)
    /\ results_vars.content.potencia_rel = Format(Zero(1), 1)
    /\ results_vars.content.ed50_comp2 = Format(FromInt(10), 3)

\* C4: for time_points = n >= 1 the series drawn has n + 1 samples, starts
\* at time 0, is strictly ascending and never passes time 8.  (Equalities
\* that hold only up to rounding, last time = 8 and spacing = 8 / n, are not
\* asked for.)
C4_SeriesLength ==
    (DefaultsExcept({}) /\ last_update = 0 /\ fig_kinetic.drawn) =>
        LET rows == fig_kinetic.content
        IN  /\ Len(rows) = parameters.time_points + 1
            /\ IsZero(rows[1].time)
            /\ \A i \in 1..(Len(rows) - 1) : FLt(rows[i].time, rows[i + 1].time)
            /\ \A i \in 1..Len(rows) : FLe(rows[i].time, Eight)

\* the inhibition constant the selector names, and the name of the other one
SelectedKi(P, sel) == IF sel = "compound1" THEN P.Ki_comp1 ELSE P.Ki_comp2
OtherKiName(sel) == IF sel = "compound1" THEN "Ki_comp2" ELSE "Ki_comp1"

\* every sample of the series for (P, sel) has the growth rate that the
\* selected inhibition constant gives at the sample's concentration
UsesSelectedKi(P, sel) ==
    LET rows == kinetic_data(P, sel).rows
    IN  \A i \in 1..Len(rows) :
            rows[i].mu = inhibition_model(rows[i].concentration, P.mu_max,
                                          SelectedKi(P, sel))

\* changing the other inhibition constant changes no sample
OtherKiIgnored(P, sel) ==
    \A k \in OtherKi[OtherKiName(sel)] :
        kinetic_data([P EXCEPT ![OtherKiName(sel)] = k], sel).rows
            = kinetic_data(P, sel).rows

SelectedKiOnly ==
    [c \in GuiVariants \X Compounds |->
        UsesSelectedKi(c[1], c[2]) /\ OtherKiIgnored(c[1], c[2])] @@ << >>

\* C5: the selector is always compound1 or compound2; a series just drawn
\* or just exported is the series of the current parameters and selector,
\* each of its samples is computed with the inhibition constant the
\* selector names, and the other inhibition constant has no influence on it.
C5_SelectedCompoundKi ==
    /\ selected_compound \in Compounds
    /\ last_update = 0 =>
           /\ fig_kinetic = Drawn(CurrentData.rows)
           /\ SelectedKiOnly[<<parameters, selected_compound>>]
    /\ messagebox = ShowInfo("export_data") =>
           /\ csv_files[selected_compound] = Drawn(CurrentData.rows)
           /\ SelectedKiOnly[<<parameters, selected_compound>>]

C5_Witness ==
    /\ selected_compound = "compound2"
    /\ parameters.Ki_comp1 = One
    /\ last_update = 0
    /\ fig_kinetic.drawn
    /\ csv_files["compound2"] = fig_kinetic

\* C6: for every carrying capacity K_max > 0 the first sample of a series,
\* taken at time 0, has raw population exactly N0 = 1e6.
C6_InitialPopulation ==
    (/\ DefaultsExcept({"K_max"})
     /\ FLt(Zero(1), parameters.K_max)
     /\ last_update = 0 /\ fig_kinetic.drawn) =>
        /\ IsZero(fig_kinetic.content[1].time)
        /\ FEq(fig_kinetic.content[1].raw_biomass, N0_default)

\* C7: a burst of parameter changes, each less than 100 ms after the
\* previous one, is followed by exactly one update_plots run: when the
\* timer of a burst fires, its run is the only one the burst caused.
C7_OneRecomputationPerBurst == burst_coalesced

\* C8: when the most recent handler ran update_plots and a step of it
\* failed, or some output is not what the current parameters and selector
\* give, the error dialog of that run is on screen.
C8_FailureIsIndicated ==
    (last_update # -1 /\ (last_update # 0 \/ ~AllFresh))
        => /\ messagebox.kind = "showerror"
           /\ messagebox.handler = "update_plots"

C8_Witness ==
    /\ last_update = 3
    /\ messagebox.kind = "showerror"
    /\ fig_inhibition = Drawn(Render(parameters).inhibition)
    /\ fig_kinetic = Drawn(CurrentData.rows)
    /\ fig_comparison # Drawn(Render(parameters).comparison)
    /\ results_vars # Drawn(Render(parameters).results)

\* C9: a series drawn without an error dialog holds no sample with a
\* negative concentration, a negative growth rate or a non-positive
\* population.
C9_PhysicallyMeaningful ==
    (last_update = 0 /\ fig_kinetic.drawn /\ messagebox.kind # "showerror") =>
        \A i \in 1..Len(fig_kinetic.content) :
            LET row == fig_kinetic.content[i]
            IN  /\ ~FLt(row.concentration, Zero(1))
                /\ ~FLt(row.mu, Zero(1))
                /\ ~FLe(row.raw_biomass, Zero(1))

\* C11: a click on the reset button, in any reachable state, leaves the
\* eight parameters at the values __init__ gave them and the selector at
\* compound1; unless update_plots reported a failure of the plotting
\* library, every output then shows what those defaults give.
C11_ResetRestoresStartup ==
    [][reset_parameters =>
         /\ parameters' = initial_parameters
         /\ selected_compound' = "compound1"
         /\ (messagebox'.kind # "showerror" =>
                /\ last_update' = 0
                /\ fig_inhibition' = Drawn(Render(initial_parameters).inhibition)
                /\ fig_kinetic' =
                     Drawn(kinetic_data(initial_parameters, "compound1").rows)
                /\ fig_comparison' = Drawn(Render(initial_parameters).comparison)
                /\ results_vars' = Drawn(Render(initial_parameters).results))]_vars

\* the reset button was clicked after both compounds were exported, the
\* first of them under parameters other than the defaults
C11_Witness ==
    /\ burst_ran /\ after_pending # {}
    /\ parameters = initial_parameters
    /\ selected_compound = "compound1"
    /\ last_update = 0 /\ AllFresh
    /\ csv_files["compound2"].drawn
    /\ csv_files["compound1"].drawn
    /\ csv_files["compound1"] #
         Drawn(kinetic_data(initial_parameters, "compound1").rows)

\* a write to a parameter variable: a slider move or the reset button
ParameterWrite == ScaleMoved \/ reset_parameters

\* no timer is pending, the last handler ran update_plots, and every
\* output shows the current parameters unless that run reported a failure
Recomputed ==
    /\ after_pending = {}
    /\ last_update # -1
    /\ (AllFresh \/ messagebox.kind = "showerror")

\* C12: at most one debounce timer is pending at any time, and, provided
\* the writes to the parameters eventually stop, every state with a pending
\* timer is followed by a state in which the timer has fired and
\* update_plots has run on the parameter values current at that time.
C12_NoUpdateLost ==
    /\ [](Cardinality(after_pending) <= 1)
    /\ (<>[][~ParameterWrite]_vars) => ((after_pending # {}) ~> Recomputed)

\* a slider moved Ki_comp1 away from its default, the timer fired and the
\* outputs show the new value
C12_Witness ==
    /\ parameters.Ki_comp1 = FromInt(1)
    /\ update_timer # 0 /\ after_pending = {}
    /\ ~burst_ran /\ burst_coalesced
    /\ last_update = 0 /\ AllFresh

====
